---- MODULE Spec2Model ----
(***************************************************************************)
(* Model of tools/Transcriber/transcribe_audio.py: the fusion of a Whisper *)
(* transcription with a pyannote speaker diarization.                      *)
(*                                                                         *)
(* Times are whole seconds (the floats of the source restricted to values  *)
(* on which float arithmetic is exact).  Strings are sequences of          *)
(* one-character strings, so that strip(), joins and f-strings are         *)
(* computed character by character.                                        *)
(***************************************************************************)
EXTENDS Integers, Sequences, FiniteSets, TLC

VARIABLES pc, diarization_segments, start, end, speaker,
          whisper_result, merged, grouped, formatted,
          seconds, audio_file, enable_diarization, env_file, hf_token,
          exit_code, files, trace

\* the argument of format_timestamp, and what a run of main adds to the
\* state: the audio file and the --diarize option, the connector's .env
\* file, the token read from it, the exit code, the files written and the
\* calls of the two engines
runVars == <<seconds, audio_file, enable_diarization, env_file, hf_token,
             exit_code, files, trace>>

vars == <<pc, diarization_segments, start, end, speaker,
          whisper_result, merged, grouped, formatted,
          seconds, audio_file, enable_diarization, env_file, hf_token,
          exit_code, files, trace>>

(***************************************************************************)
(* Bounds of the model.                                                    *)
(***************************************************************************)
\* latest second of a diarization segment or of a query window
MaxTime == 2
\* longest diarization sequence handed to get_speaker_at_time
MaxDiar == 3
\* latest second of a transcription segment
MaxSegTime == 1
\* longest sequence of transcription (or attributed) segments
MaxSegs == 3
\* longest transcription handed to the merge
MaxMergeSegs == 2
\* longest diarization handed to the merge
MaxMergeDiar == 1
\* the ticks of a second: the fractions of a second a float can hold
TicksPerSecond == 2
\* most whole hours of an argument of format_timestamp
MaxHours == 10
\* longest transcription of a run of main
MaxRunSegs == 1
\* longest diarization handed to get_speaker_at_time as a core operation
MaxCoreSegs == 2
\* longest transcription and diarization merged, and longest list of
\* attributed segments formatted, as a core operation
MaxCoreMerge == 1
\* longest text handed to format_transcription_plain
MaxPlainLen == 5
\* longest diarization and longest transcription at Step 3 of main
MaxSaveLen == 2
\* longest list of attributed segments formatted twice
MaxTwiceSegs == 2

(***************************************************************************)
(* Values.                                                                 *)
(***************************************************************************)
\* Python's None; no string, since strings hold one-character elements only
None == <<"None">>

\* no connector .env file at memory_path (line 75)
NoEnvFile == [exists |-> FALSE, readable |-> FALSE, lines |-> <<>>]

\* no run of main, no call of format_timestamp
NoRun ==
    /\ seconds = 0
    /\ audio_file = [exists |-> FALSE, supported |-> FALSE]
    /\ enable_diarization = FALSE
    /\ env_file = NoEnvFile
    /\ hf_token = None
    /\ exit_code = <<>>
    /\ files = {}
    /\ trace = <<>>

\* the literal "SPEAKER_00" of lines 190 and 218
SPEAKER_00 == <<"S", "P", "E", "A", "K", "E", "R", "_", "0", "0">>

\* a second label of the kind pyannote yields
SPEAKER_01 == <<"S", "P", "E", "A", "K", "E", "R", "_", "0", "1">>

\* the speaker labels of a run
Labels == {SPEAKER_00, SPEAKER_01}

\* Python truthiness of a str-or-None value: None and "" are falsy
Falsy(x) == x = None \/ x = <<>>

Max2(a, b) == IF a >= b THEN a ELSE b

Min2(a, b) == IF a <= b THEN a ELSE b

Abs(x) == IF x < 0 THEN -x ELSE x

\* the sequences over S of length at most n
SeqsUpTo(S, n) == UNION {[1..k -> S] : k \in 0..n}

\* all but the last element of a non-empty sequence
Front(s) == SubSeq(s, 1, Len(s) - 1)

Last(s) == s[Len(s)]

(***************************************************************************)
(* The inputs: what run_diarization returns (lines 148-160).               *)
(***************************************************************************)
\* one diarization segment: a stretch of speech (turn.start < turn.end) with its speaker
DiarSegments ==
    {[start |-> w[1], end |-> w[2], speaker |-> l] :
        w \in {w \in (0..MaxTime) \X (0..MaxTime) : w[1] < w[2]}, l \in Labels}

\* the diarization sequences handed to get_speaker_at_time, in any order
DiarSeqs == SeqsUpTo(DiarSegments, MaxDiar)

\* the query windows [start, end] with end >= start
Windows == {w \in (0..MaxTime) \X (0..MaxTime) : w[1] <= w[2]}

\* str.strip() removes these from both ends
Whitespace == {" ", "\t", "\n"}

\* the texts of Whisper's segments, as the engine returns them
RawTexts == {<<" ", "h", "i">>, <<"b", "y", "e", " ">>}

\* one transcription segment of whisper_result["segments"]
WhisperSegments ==
    {[start |-> w[1], end |-> w[2], text |-> t] :
        w \in {w \in (0..MaxSegTime) \X (0..MaxSegTime) : w[1] <= w[2]}, t \in RawTexts}

\* the text of a whole result: the texts of its segments, one after the other
RECURSIVE FullText(_)
FullText(segments) ==
    IF segments = <<>> THEN <<>> ELSE Head(segments).text \o FullText(Tail(segments))

\* what model.transcribe returns (line 268) for the segments it recognised
WhisperResult(segments) == [text |-> FullText(segments), segments |-> segments]

\* no transcription yet
NoResult == [text |-> <<>>, segments |-> <<>>]

(***************************************************************************)
(* get_speaker_at_time (lines 176-221).                                    *)
(***************************************************************************)
\* a plausible slip: the length of the segment for the length of the overlap
overlap_duration_SegmentLength(seg, s, e) == seg.end - seg.start

\* lines 197-199: the overlap of one segment with the window
overlap_duration(seg, s, e) ==
    Max2(0, Min2(e, seg.end) - Max2(s, seg.start))

\* dict.get(k, default) of a dict kept as its items in insertion order
DictGet(d, k, default) ==
    IF \E i \in 1..Len(d) : d[i].key = k
    THEN d[CHOOSE i \in 1..Len(d) : d[i].key = k].value
    ELSE default

\* d[k] = v: an existing key keeps its place, a new key goes last
DictSet(d, k, v) ==
    IF \E i \in 1..Len(d) : d[i].key = k
    THEN [i \in 1..Len(d) |-> IF d[i].key = k THEN [key |-> k, value |-> v] ELSE d[i]]
    ELSE Append(d, [key |-> k, value |-> v])

\* a plausible slip: the overlap is stored, not added to the speaker's total
AccumulateOverwrite(d, seg, s, e) ==
    IF overlap_duration(seg, s, e) > 0
    THEN DictSet(d, seg.speaker, overlap_duration(seg, s, e))
    ELSE d

\* a plausible slip: no test "overlap_duration > 0", every segment enters
\* its speaker in the dict
AccumulateCountsZero(d, seg, s, e) ==
    DictSet(d, seg.speaker, DictGet(d, seg.speaker, 0) + overlap_duration(seg, s, e))

\* lines 201-203: one pass of the loop body over speaker_overlaps
Accumulate(d, seg, s, e) ==
    IF overlap_duration(seg, s, e) > 0
    THEN DictSet(d, seg.speaker, DictGet(d, seg.speaker, 0) + overlap_duration(seg, s, e))
    ELSE d

\* lines 193-203: speaker_overlaps after the loop over the segments, in input order
RECURSIVE speaker_overlaps(_, _, _)
speaker_overlaps(segs, s, e) ==
    IF segs = <<>>
    THEN <<>>
    ELSE Accumulate(speaker_overlaps(Front(segs), s, e), Last(segs), s, e)

\* max(d, key=d.get) from item i on: a later key wins only with a strictly greater value
RECURSIVE MaxKeyFrom(_, _, _)
MaxKeyFrom(d, i, best) ==
    IF i > Len(d)
    THEN d[best].key
    ELSE MaxKeyFrom(d, i + 1, IF d[i].value > d[best].value THEN i ELSE best)

\* a plausible slip: the last of the greatest values wins
MaxKeyLast(d) ==
    d[CHOOSE i \in 1..Len(d) :
        /\ \A j \in 1..Len(d) : d[j].value <= d[i].value
        /\ \A j \in (i + 1)..Len(d) : d[j].value < d[i].value].key

\* a plausible slip: the first key of the dict, whatever the values
MaxKeyFirst(d) == d[1].key

\* line 221: max(speaker_overlaps, key=speaker_overlaps.get) of a non-empty dict
MaxKey(d) == MaxKeyFrom(d, 2, 1)

\* a plausible slip: "<=" for "<", so the last of the nearest segments wins
CloserLast(closest, seg, s, e) ==
    IF ~closest.finite \/ Abs((s + e) - (seg.start + seg.end)) <= closest.distance
    THEN [finite |-> TRUE,
          distance |-> Abs((s + e) - (seg.start + seg.end)),
          speaker |-> seg.speaker]
    ELSE closest

\* lines 212-216: one pass of the nearest-speaker loop.  The distances are
\* kept doubled, (start + end) - (seg.start + seg.end), which orders them
\* as the halved midpoints of the source do
Closer(closest, seg, s, e) ==
    IF ~closest.finite \/ Abs((s + e) - (seg.start + seg.end)) < closest.distance
    THEN [finite |-> TRUE,
          distance |-> Abs((s + e) - (seg.start + seg.end)),
          speaker |-> seg.speaker]
    ELSE closest

\* lines 207-216: closest_distance = inf and closest_speaker = None, then the loop
RECURSIVE closest_speaker(_, _, _)
closest_speaker(segs, s, e) ==
    IF segs = <<>>
    THEN [finite |-> FALSE, distance |-> 0, speaker |-> None]
    ELSE Closer(closest_speaker(Front(segs), s, e), Last(segs), s, e)

\* a plausible slip: no default label for an empty diarization
get_speaker_at_time_NoDefault(segs, s, e) ==
    IF segs = <<>>
    THEN None
    ELSE IF speaker_overlaps(segs, s, e) = <<>>
         THEN closest_speaker(segs, s, e).speaker
         ELSE MaxKey(speaker_overlaps(segs, s, e))

\* a plausible slip: no nearest-segment fallback when nothing overlaps
get_speaker_at_time_NoFallback(segs, s, e) ==
    IF segs = <<>>
    THEN SPEAKER_00
    ELSE IF speaker_overlaps(segs, s, e) = <<>>
         THEN None
         ELSE MaxKey(speaker_overlaps(segs, s, e))

\* a plausible slip: the default label whenever nothing overlaps
get_speaker_at_time_DefaultOnNoOverlap(segs, s, e) ==
    IF segs = <<>>
    THEN SPEAKER_00
    ELSE IF speaker_overlaps(segs, s, e) = <<>>
         THEN SPEAKER_00
         ELSE MaxKey(speaker_overlaps(segs, s, e))

\* lines 189-221
get_speaker_at_time(segs, s, e) ==
    IF segs = <<>>
    THEN SPEAKER_00
    ELSE IF speaker_overlaps(segs, s, e) = <<>>
         THEN IF Falsy(closest_speaker(segs, s, e).speaker)
              THEN SPEAKER_00
              ELSE closest_speaker(segs, s, e).speaker
         ELSE MaxKey(speaker_overlaps(segs, s, e))

(***************************************************************************)
(* SpecResolve: get_speaker_at_time called on every diarization sequence   *)
(* and every window within the bounds.                                     *)
(***************************************************************************)
InitResolve ==
    /\ pc = "ready"
    /\ NoRun
    /\ diarization_segments \in DiarSeqs
    /\ start = 0
    /\ end = 0
    /\ speaker = None
    /\ whisper_result = NoResult
    /\ merged = <<>>
    /\ grouped = <<>>
    /\ formatted = <<>>

\* one call get_speaker_at_time(diarization_segments, s, e)
GetSpeakerAtTime ==
    \E w \in Windows :
        /\ pc = "ready"
        /\ start' = w[1]
        /\ end' = w[2]
        /\ speaker' = get_speaker_at_time(diarization_segments, w[1], w[2])
        /\ pc' = "resolved"
        /\ UNCHANGED <<diarization_segments, whisper_result, merged, grouped, formatted>>
        /\ UNCHANGED runVars

NextResolve == GetSpeakerAtTime

SpecResolve == InitResolve /\ [][NextResolve]_vars

(***************************************************************************)
(* Claims about get_speaker_at_time.                                       *)
(***************************************************************************)
\* the overlap of segment i of the diarization with the window of the call
OverlapAt(i) ==
    Max2(0, Min2(end, diarization_segments[i].end)
            - Max2(start, diarization_segments[i].start))

\* the sum of the overlaps of the segments i..Len of speaker l
RECURSIVE OverlapSumFrom(_, _)
OverlapSumFrom(l, i) ==
    IF i > Len(diarization_segments)
    THEN 0
    ELSE (IF diarization_segments[i].speaker = l THEN OverlapAt(i) ELSE 0)
         + OverlapSumFrom(l, i + 1)

\* the accumulated overlap of speaker l over ALL of its segments
TotalOverlap(l) == OverlapSumFrom(l, 1)

\* some segment overlaps the window
SomeOverlap == \E i \in 1..Len(diarization_segments) : OverlapAt(i) > 0

\* the speakers whose accumulated overlap is the greatest
Winners == {l \in Labels : \A m \in Labels : TotalOverlap(m) <= TotalOverlap(l)}

\* the place of the first segment of speaker l in the diarization
FirstSegment(l) ==
    CHOOSE i \in 1..Len(diarization_segments) :
        /\ diarization_segments[i].speaker = l
        /\ \A j \in 1..(i - 1) : diarization_segments[j].speaker # l

\* the place of the first segment of speaker l that overlaps the window
FirstOverlap(l) ==
    CHOOSE i \in 1..Len(diarization_segments) :
        /\ diarization_segments[i].speaker = l /\ OverlapAt(i) > 0
        /\ \A j \in 1..(i - 1) :
            ~(diarization_segments[j].speaker = l /\ OverlapAt(j) > 0)

\* C1: when some segment overlaps the window, the returned speaker is one of
\* the diarization whose overlap, summed over all of its segments, is not
\* exceeded by any speaker's
C1_GreatestAccumulatedOverlap ==
    (pc = "resolved" /\ SomeOverlap) =>
        /\ \E i \in 1..Len(diarization_segments) :
            diarization_segments[i].speaker = speaker
        /\ \A l \in Labels : TotalOverlap(l) <= TotalOverlap(speaker)

\* C1 happens: the winner wins only by the sum of two of its segments,
\* none of which alone exceeds the other speaker's overlap
C1_Witness ==
    /\ pc = "resolved" /\ SomeOverlap
    /\ \E l \in Labels \ {speaker} :
        /\ TotalOverlap(l) > 0
        /\ TotalOverlap(l) < TotalOverlap(speaker)
        /\ \A i \in 1..Len(diarization_segments) :
            diarization_segments[i].speaker = speaker => OverlapAt(i) <= TotalOverlap(l)

\* C2 as stated: on a tie, the tied speaker whose earliest segment of the
\* input comes first is returned
C2_TieEarliestSegment ==
    (pc = "resolved" /\ SomeOverlap /\ Cardinality(Winners) >= 2) =>
        /\ speaker \in Winners
        /\ \A l \in Winners : FirstSegment(speaker) <= FirstSegment(l)

\* C2 amended: on a tie, the tied speaker whose earliest segment with a
\* positive overlap comes first is returned
C2_TieEarliestOverlappingSegment ==
    (pc = "resolved" /\ SomeOverlap /\ Cardinality(Winners) >= 2) =>
        /\ speaker \in Winners
        /\ \A l \in Winners : FirstOverlap(speaker) <= FirstOverlap(l)

\* C2 happens: a tie in which the other tied speaker has the earlier segment,
\* one that does not overlap the window
C2_Witness ==
    /\ pc = "resolved" /\ SomeOverlap /\ Cardinality(Winners) >= 2
    /\ \E l \in Winners \ {speaker} :
        /\ FirstSegment(l) < FirstSegment(speaker)
        /\ FirstOverlap(speaker) < FirstOverlap(l)

\* twice the distance of the midpoint of segment i to the midpoint of the window
Distance2(i) ==
    Abs((start + end)
        - (diarization_segments[i].start + diarization_segments[i].end))

\* the first of the segments whose midpoint is nearest to the window's
Nearest ==
    CHOOSE i \in 1..Len(diarization_segments) :
        /\ \A j \in 1..Len(diarization_segments) : Distance2(i) <= Distance2(j)
        /\ \A j \in 1..(i - 1) : Distance2(i) < Distance2(j)

\* C3: with a non-empty diarization and no overlap, the speaker of the
\* segment with the nearest midpoint is returned, the earliest such segment
\* deciding
C3_NearestMidpoint ==
    (pc = "resolved" /\ diarization_segments # <<>> /\ ~SomeOverlap) =>
        speaker = diarization_segments[Nearest].speaker

\* C3 happens: no overlap, and two segments of different speakers are
\* equally near, the later one being of the other speaker
C3_Witness ==
    /\ pc = "resolved" /\ diarization_segments # <<>> /\ ~SomeOverlap
    /\ \E j \in 1..Len(diarization_segments) :
        /\ j > Nearest
        /\ Distance2(j) = Distance2(Nearest)
        /\ diarization_segments[j].speaker # diarization_segments[Nearest].speaker

\* C4: with an empty diarization the label "SPEAKER_00" is returned, whatever
\* the window
C4_EmptyDiarizationDefault ==
    (pc = "resolved" /\ diarization_segments = <<>>) =>
        speaker = <<"S", "P", "E", "A", "K", "E", "R", "_", "0", "0">>

\* C4 happens: a call with an empty diarization and a window of some length
C4_Witness ==
    /\ pc = "resolved" /\ diarization_segments = <<>>
    /\ start > 0 /\ end > start

(***************************************************************************)
(* merge_transcription_with_diarization (lines 295-322).                   *)
(***************************************************************************)
RECURSIVE lstrip(_)
lstrip(s) == IF s # <<>> /\ Head(s) \in Whitespace THEN lstrip(Tail(s)) ELSE s

RECURSIVE rstrip(_)
rstrip(s) == IF s # <<>> /\ Last(s) \in Whitespace THEN rstrip(Front(s)) ELSE s

\* str.strip()
strip(s) == rstrip(lstrip(s))

\* a plausible slip: the end of the record is copied from the segment's start
MergeSegmentEndFromStart(segs, segment) ==
    [speaker |-> get_speaker_at_time(segs, segment.start, segment.end),
     start |-> segment.start,
     end |-> segment.start,
     text |-> strip(segment.text)]

\* lines 309-320: the record appended for one transcription segment
MergeSegment(segs, segment) ==
    [speaker |-> get_speaker_at_time(segs, segment.start, segment.end),
     start |-> segment.start,
     end |-> segment.end,
     text |-> strip(segment.text)]

\* lines 306-322: merged after the loop over whisper_result["segments"]
RECURSIVE merge_transcription_with_diarization(_, _)
merge_transcription_with_diarization(result, segs) ==
    IF result.segments = <<>>
    THEN <<>>
    ELSE Append(merge_transcription_with_diarization(
                    [result EXCEPT !.segments = Front(result.segments)], segs),
                MergeSegment(segs, Last(result.segments)))

\* a plausible slip: the text is stripped in place, segment["text"] =
\* segment["text"].strip(), before it is copied
SegmentsAfterMergeStripped(segments) ==
    [i \in 1..Len(segments) |-> [segments[i] EXCEPT !.text = strip(@)]]

\* whisper_result["segments"] after the call: lines 309-320 read the fields
\* of segment and write to the new dict of merged only
SegmentsAfterMerge(segments) == segments

(***************************************************************************)
(* SpecMerge: the merge of every transcription with every diarization      *)
(* within the bounds.                                                      *)
(***************************************************************************)
InitMerge ==
    /\ pc = "ready"
    /\ NoRun
    /\ diarization_segments \in SeqsUpTo(DiarSegments, MaxMergeDiar)
    /\ whisper_result \in {WhisperResult(segments) :
                              segments \in SeqsUpTo(WhisperSegments, MaxMergeSegs)}
    /\ start = 0
    /\ end = 0
    /\ speaker = None
    /\ merged = <<>>
    /\ grouped = <<>>
    /\ formatted = <<>>

\* one call merge_transcription_with_diarization(whisper_result, diarization_segments)
MergeTranscriptionWithDiarization ==
    /\ pc = "ready"
    /\ merged' = merge_transcription_with_diarization(whisper_result, diarization_segments)
    /\ whisper_result' =
           [whisper_result EXCEPT !.segments = SegmentsAfterMerge(@)]
    /\ pc' = "merged"
    /\ UNCHANGED <<diarization_segments, start, end, speaker, grouped, formatted>>
    /\ UNCHANGED runVars

NextMerge == MergeTranscriptionWithDiarization

SpecMerge == InitMerge /\ [][NextMerge]_vars

\* C5: the merge yields one attributed segment per transcription segment, in
\* the same order, with the segment's start and end and with the speaker
\* get_speaker_at_time gives for that window
C5_OneAttributedSegmentPerSegment ==
    pc = "merged" =>
        /\ Len(merged) = Len(whisper_result.segments)
        /\ \A i \in 1..Len(merged) :
            /\ merged[i].start = whisper_result.segments[i].start
            /\ merged[i].end = whisper_result.segments[i].end
            /\ merged[i].speaker =
                get_speaker_at_time(diarization_segments,
                                    whisper_result.segments[i].start,
                                    whisper_result.segments[i].end)
            /\ DOMAIN merged[i] = {"speaker", "start", "end", "text"}

\* C5 happens: two segments of different windows and texts, the second of
\* zero duration, merged with a diarization whose speaker is not the default
C5_Witness ==
    /\ pc = "merged"
    /\ Len(whisper_result.segments) = 2
    /\ Len(merged) = 2
    /\ diarization_segments # <<>>
    /\ whisper_result.segments[1].start < whisper_result.segments[1].end
    /\ whisper_result.segments[2].start = whisper_result.segments[2].end
    /\ whisper_result.segments[1].text # whisper_result.segments[2].text
    /\ merged[1].speaker = diarization_segments[1].speaker
    /\ merged[1].speaker # SPEAKER_00

(***************************************************************************)
(* format_timestamp (lines 325-334).  Its argument is a float: a float is   *)
(* kept as a whole number of ticks, TicksPerSecond to the second, so that  *)
(* the fractions of a second the code truncates are there to be truncated. *)
(***************************************************************************)
Digit(n) == <<"0", "1", "2", "3", "4", "5", "6", "7", "8", "9">>[n + 1]

\* str() of a natural number
RECURSIVE Decimal(_)
Decimal(n) == IF n < 10 THEN <<Digit(n)>> ELSE Decimal(n \div 10) \o <<Digit(n % 10)>>

\* the format :02d of a natural number
Pad2(n) == IF n < 10 THEN <<"0">> \o Decimal(n) ELSE Decimal(n)

\* the float n.0 of a whole number n
Float(n) == n * TicksPerSecond

\* int(x // d) of a non-negative float x and a whole number d
IntFloorDiv(x, d) == x \div (d * TicksPerSecond)

\* x % d of a non-negative float x and a whole number d: a float
FloatMod(x, d) == x % (d * TicksPerSecond)

\* int(x) of a non-negative float x
Truncate(x) == x \div TicksPerSecond

\* a plausible slip: the seconds are rounded to the nearest whole number
format_timestamp_Rounds(t) ==
    LET hours == IntFloorDiv(t, 3600)
        minutes == IntFloorDiv(FloatMod(t, 3600), 60)
        secs == (2 * FloatMod(t, 60) + TicksPerSecond) \div (2 * TicksPerSecond)
    IN  IF hours > 0
        THEN Decimal(hours) \o <<":">> \o Pad2(minutes) \o <<":">> \o Pad2(secs)
        ELSE Decimal(minutes) \o <<":">> \o Pad2(secs)

\* lines 327-334, of a float t
format_timestamp(t) ==
    LET hours == IntFloorDiv(t, 3600)
        minutes == IntFloorDiv(FloatMod(t, 3600), 60)
        secs == Truncate(FloatMod(t, 60))
    IN  IF hours > 0
        THEN Decimal(hours) \o <<":">> \o Pad2(minutes) \o <<":">> \o Pad2(secs)
        ELSE Decimal(minutes) \o <<":">> \o Pad2(secs)

(***************************************************************************)
(* format_transcription_diarized (lines 346-392).  A group carries, beside *)
(* the four keys of the source, the history field "members": the places in *)
(* merged_segments of the segments it was built from.  Nothing reads it    *)
(* but the properties.                                                     *)
(***************************************************************************)
\* lines 360-365 and 373-378: a group opened from segment i
NewGroup(seg, i) ==
    [speaker |-> seg.speaker, start |-> seg.start, end |-> seg.end,
     text |-> seg.text, members |-> <<i>>]

\* a plausible slip: the text is appended without the separating space
ExtendGroupNoSpace(group, seg, i) ==
    [group EXCEPT !.end = seg.end,
                  !.text = @ \o seg.text,
                  !.members = Append(@, i)]

\* lines 368-369: the current group extended by segment i
ExtendGroup(group, seg, i) ==
    [group EXCEPT !.end = seg.end,
                  !.text = @ \o <<" ">> \o seg.text,
                  !.members = Append(@, i)]

\* a plausible slip: every segment opens a group of its own
GroupStepNeverExtends(st, seg, i) ==
    IF st.current_group = <<>>
    THEN [grouped |-> st.grouped, current_group |-> <<NewGroup(seg, i)>>]
    ELSE [grouped |-> Append(st.grouped, st.current_group[1]),
          current_group |-> <<NewGroup(seg, i)>>]

\* a plausible slip: a closed group is put in front of the earlier ones
GroupStepPrepends(st, seg, i) ==
    IF st.current_group = <<>>
    THEN [grouped |-> st.grouped, current_group |-> <<NewGroup(seg, i)>>]
    ELSE IF seg.speaker = st.current_group[1].speaker
         THEN [grouped |-> st.grouped,
               current_group |-> <<ExtendGroup(st.current_group[1], seg, i)>>]
         ELSE [grouped |-> <<st.current_group[1]>> \o st.grouped,
               current_group |-> <<NewGroup(seg, i)>>]

\* lines 359-378: one pass of the loop body; current_group is <<>> for None
\* and <<group>> otherwise
GroupStep(st, seg, i) ==
    IF st.current_group = <<>>
    THEN [grouped |-> st.grouped, current_group |-> <<NewGroup(seg, i)>>]
    ELSE IF seg.speaker = st.current_group[1].speaker
         THEN [grouped |-> st.grouped,
               current_group |-> <<ExtendGroup(st.current_group[1], seg, i)>>]
         ELSE [grouped |-> Append(st.grouped, st.current_group[1]),
               current_group |-> <<NewGroup(seg, i)>>]

\* lines 355-378: grouped and current_group after the loop
RECURSIVE GroupLoop(_)
GroupLoop(segs) ==
    IF segs = <<>>
    THEN [grouped |-> <<>>, current_group |-> <<>>]
    ELSE GroupStep(GroupLoop(Front(segs)), Last(segs), Len(segs))

\* a plausible slip: the group still open after the loop is forgotten
GroupForgetsLast(segs) == GroupLoop(segs).grouped

\* lines 355-382: grouped, with the last group
Group(segs) ==
    IF GroupLoop(segs).current_group # <<>>
    THEN Append(GroupLoop(segs).grouped, GroupLoop(segs).current_group[1])
    ELSE GroupLoop(segs).grouped

\* a plausible slip: the entry is stamped with the end of the turn
GroupLineStampsEnd(group) ==
    group.speaker \o <<" ", "[">> \o format_timestamp(Float(group.end))
        \o <<"]", ":", " ">> \o group.text

\* line 390: the line of one group
GroupLine(group) ==
    group.speaker \o <<" ", "[">> \o format_timestamp(Float(group.start))
        \o <<"]", ":", " ">> \o group.text

\* line 392: "\n\n".join(lines)
RECURSIVE JoinLines(_)
JoinLines(groups) ==
    IF groups = <<>>
    THEN <<>>
    ELSE IF Len(groups) = 1
         THEN GroupLine(groups[1])
         ELSE GroupLine(groups[1]) \o <<"\n", "\n">> \o JoinLines(Tail(groups))

\* a plausible slip: nothing is returned for an empty input
format_transcription_diarized_NoneIfEmpty(segs) ==
    IF segs = <<>> THEN None ELSE JoinLines(Group(segs))

\* lines 351-392
format_transcription_diarized(segs) ==
    IF segs = <<>> THEN <<>> ELSE JoinLines(Group(segs))

\* a plausible slip: a group is the very dict of the segment that opens it
\* (current_group = seg), so that every opening segment is written to
WrittenSegmentsOpeners(segs) ==
    IF segs = <<>> THEN {}
    ELSE {Group(segs)[k].members[1] : k \in 1..Len(Group(segs))}

\* the segments of the input that the call writes to: none, since lines
\* 368-369 assign to current_group, which lines 360-365 and 373-378 build
\* as a dict of its own
WrittenSegments(segs) == {}

\* the input list after the call: a segment written to holds the end and
\* the text of its group
SegmentsAfterFormat(segs) ==
    [i \in 1..Len(segs) |->
        IF i \in WrittenSegments(segs)
        THEN LET group == CHOOSE g \in {Group(segs)[k] : k \in 1..Len(Group(segs))} :
                              g.members[1] = i
             IN  [segs[i] EXCEPT !.end = group.end, !.text = group.text]
        ELSE segs[i]]

(***************************************************************************)
(* SpecFormat: format_transcription_diarized called on every sequence of   *)
(* attributed segments within the bounds, in ascending order or not.       *)
(***************************************************************************)
\* one attributed segment, as the merge yields them
AttributedSegments ==
    {[speaker |-> l, start |-> w[1], end |-> w[2], text |-> strip(t)] :
        l \in Labels,
        w \in {w \in (0..MaxSegTime) \X (0..MaxSegTime) : w[1] <= w[2]},
        t \in RawTexts}

InitFormat ==
    /\ pc = "ready"
    /\ NoRun
    /\ merged \in SeqsUpTo(AttributedSegments, MaxSegs)
    /\ diarization_segments = <<>>
    /\ whisper_result = NoResult
    /\ start = 0
    /\ end = 0
    /\ speaker = None
    /\ grouped = <<>>
    /\ formatted = <<>>

\* one call format_transcription_diarized(merged); grouped is the local list
\* of the call, which the early return of line 352 never builds
FormatTranscriptionDiarized ==
    /\ pc = "ready"
    /\ grouped' = IF merged = <<>> THEN <<>> ELSE Group(merged)
    /\ formatted' = format_transcription_diarized(merged)
    /\ merged' = SegmentsAfterFormat(merged)
    /\ pc' = "formatted"
    /\ UNCHANGED <<diarization_segments, start, end, speaker, whisper_result>>
    /\ UNCHANGED runVars

\* a second call format_transcription_diarized(merged), on the list as the
\* first call left it
FormatTranscriptionDiarizedAgain ==
    /\ pc = "formatted"
    /\ grouped' = IF merged = <<>> THEN <<>> ELSE Group(merged)
    /\ formatted' = format_transcription_diarized(merged)
    /\ merged' = SegmentsAfterFormat(merged)
    /\ pc' = "formatted_again"
    /\ UNCHANGED <<diarization_segments, start, end, speaker, whisper_result>>
    /\ UNCHANGED runVars

NextFormat == FormatTranscriptionDiarized

SpecFormat == InitFormat /\ [][NextFormat]_vars

(***************************************************************************)
(* SpecFormatTwice: format_transcription_diarized called twice on the same *)
(* list of attributed segments.                                            *)
(***************************************************************************)
InitFormatTwice ==
    /\ pc = "ready"
    /\ NoRun
    /\ merged \in SeqsUpTo(AttributedSegments, MaxTwiceSegs)
    /\ diarization_segments = <<>>
    /\ whisper_result = NoResult
    /\ start = 0
    /\ end = 0
    /\ speaker = None
    /\ grouped = <<>>
    /\ formatted = <<>>

NextFormatTwice == FormatTranscriptionDiarized \/ FormatTranscriptionDiarizedAgain

SpecFormatTwice == InitFormatTwice /\ [][NextFormatTwice]_vars

(***************************************************************************)
(* Claims about the grouping of format_transcription_diarized.             *)
(***************************************************************************)
\* the members of the turns k.. of grouped, one turn after the other
RECURSIVE MembersFrom(_)
MembersFrom(k) ==
    IF k > Len(grouped) THEN <<>> ELSE grouped[k].members \o MembersFrom(k + 1)

\* the texts of the segments at the places ms, with one space between two
RECURSIVE SpaceJoined(_)
SpaceJoined(ms) ==
    IF Len(ms) = 1
    THEN merged[ms[1]].text
    ELSE merged[ms[1]].text \o <<" ">> \o SpaceJoined(Tail(ms))

\* the adjacent pairs of input segments whose speakers differ
SpeakerChanges ==
    {i \in 1..(Len(merged) - 1) : merged[i].speaker # merged[i + 1].speaker}

\* the input is in ascending order of start
Ascending ==
    \A i \in 1..(Len(merged) - 1) : merged[i].start <= merged[i + 1].start

\* C6: every input segment is in exactly one turn: the turns, in output
\* order, are non-empty blocks whose members, one block after the other, are
\* the places 1, 2, ... of the input, zero-duration segments included
C6_TurnsPartitionInput ==
    pc = "formatted" =>
        /\ \A k \in 1..Len(grouped) : grouped[k].members # <<>>
        /\ MembersFrom(1) = [i \in 1..Len(merged) |-> i]

\* C6 happens: three segments in two turns, a zero-duration segment in a
\* turn of two
C6_Witness ==
    /\ pc = "formatted"
    /\ Len(merged) = 3
    /\ Len(grouped) = 2
    /\ Len(grouped[2].members) = 2
    /\ merged[3].start = merged[3].end

\* C7: a turn starts where its first segment starts, ends where its last
\* segment ends, and its text is the texts of its segments with one space
\* between two
C7_TurnStartEndText ==
    pc = "formatted" =>
        \A k \in 1..Len(grouped) :
            /\ grouped[k].members # <<>>
            /\ grouped[k].start = merged[grouped[k].members[1]].start
            /\ grouped[k].end =
                merged[grouped[k].members[Len(grouped[k].members)]].end
            /\ grouped[k].text = SpaceJoined(grouped[k].members)

\* C7 happens: ("hi", "bye", then another speaker) gives a first turn
\* "hi bye" from the start of the first to the later end of the second
C7_Witness ==
    /\ pc = "formatted"
    /\ Len(merged) = 3
    /\ Len(grouped) = 2
    /\ grouped[1].text = <<"h", "i", " ", "b", "y", "e">>
    /\ grouped[1].start = merged[1].start
    /\ grouped[1].end = merged[2].end
    /\ merged[1].end < merged[2].end

\* C8: every segment of a turn has the turn's speaker, consecutive turns
\* have different speakers, and a non-empty input gives one turn more than
\* it has adjacent pairs of different speakers
C8_TurnsAreMaximalRuns ==
    pc = "formatted" =>
        /\ \A k \in 1..Len(grouped) :
            \A j \in 1..Len(grouped[k].members) :
                merged[grouped[k].members[j]].speaker = grouped[k].speaker
        /\ \A k \in 1..(Len(grouped) - 1) :
            grouped[k].speaker # grouped[k + 1].speaker
        /\ merged # <<>> => Len(grouped) = 1 + Cardinality(SpeakerChanges)

\* C8 happens: a run of two segments of one speaker before a segment of
\* the other
C8_Witness ==
    /\ pc = "formatted"
    /\ Len(merged) = 3
    /\ merged[1].speaker = merged[2].speaker
    /\ merged[2].speaker # merged[3].speaker
    /\ Len(grouped) = 2

\* C9: for an input in ascending order of start, the starts of the turns
\* never decrease and the turns come in the order of their first segments
C9_TurnsInStartOrder ==
    (pc = "formatted" /\ Ascending) =>
        \A k \in 1..(Len(grouped) - 1) :
            /\ grouped[k].start <= grouped[k + 1].start
            /\ grouped[k].members # <<>> /\ grouped[k + 1].members # <<>>
            /\ grouped[k].members[1] < grouped[k + 1].members[1]

\* C9 happens: three turns of an ascending input, the last starting later
\* than the first
C9_Witness ==
    /\ pc = "formatted" /\ Ascending
    /\ Len(grouped) = 3
    /\ grouped[1].start < grouped[3].start

\* C10: an empty input gives no turn and the empty string
C10_EmptyInputEmptyOutput ==
    (pc = "formatted" /\ merged = <<>>) =>
        /\ grouped = <<>>
        /\ formatted = <<>>

\* C10 happens: the call on the empty sequence has returned
C10_Witness ==
    /\ pc = "formatted"
    /\ merged = <<>>

(***************************************************************************)
(* Claims about the body format_transcription_diarized returns.            *)
(***************************************************************************)
\* the entry of turn k, stamped with the start of the first segment of the turn
EntryOf(k) ==
    grouped[k].speaker \o <<" ", "[">>
        \o format_timestamp(Float(merged[grouped[k].members[1]].start))
        \o <<"]", ":", " ">> \o grouped[k].text

\* the entries of the turns 1..k, a blank line between two
RECURSIVE EntriesUpTo(_)
EntriesUpTo(k) ==
    IF k = 0
    THEN <<>>
    ELSE IF k = 1
         THEN EntryOf(1)
         ELSE EntriesUpTo(k - 1) \o <<"\n", "\n">> \o EntryOf(k)

\* the places of the line ends in the body
LineEnds == {i \in 1..Len(formatted) : formatted[i] = "\n"}

\* C11: the diarized body is one entry "<speaker> [<timestamp>]: <text>" per
\* turn, in turn order, stamped with the start of the turn, with exactly one
\* blank line between two entries and none before the first or after the last
C11_OneEntryPerTurn ==
    pc = "formatted" =>
        /\ formatted = EntriesUpTo(Len(grouped))
        /\ grouped # <<>> =>
            /\ Cardinality(LineEnds) = 2 * (Len(grouped) - 1)
            /\ formatted[1] # "\n"
            /\ formatted[Len(formatted)] # "\n"

\* C11 happens: two entries, the first of a turn of two segments whose
\* start is neither its end nor the start of its second segment
C11_Witness ==
    /\ pc = "formatted"
    /\ Len(grouped) = 2
    /\ Len(grouped[1].members) = 2
    /\ grouped[1].start < grouped[1].end
    /\ grouped[1].start < merged[2].start
    /\ Cardinality(LineEnds) = 2

(***************************************************************************)
(* SpecTimestamp: format_timestamp called on every float of up to MaxHours *)
(* whole hours and any minutes, seconds and fraction of a second.          *)
(***************************************************************************)
\* the non-negative floats handed to format_timestamp
Timestamps == 0..((MaxHours + 1) * 3600 * TicksPerSecond - 1)

InitTimestamp ==
    /\ pc = "ready"
    /\ seconds \in Timestamps
    /\ audio_file = [exists |-> FALSE, supported |-> FALSE]
    /\ enable_diarization = FALSE
    /\ env_file = NoEnvFile
    /\ hf_token = None
    /\ exit_code = <<>>
    /\ files = {}
    /\ trace = <<>>
    /\ diarization_segments = <<>>
    /\ whisper_result = NoResult
    /\ start = 0
    /\ end = 0
    /\ speaker = None
    /\ merged = <<>>
    /\ grouped = <<>>
    /\ formatted = <<>>

\* one call format_timestamp(seconds)
FormatTimestamp ==
    /\ pc = "ready"
    /\ formatted' = format_timestamp(seconds)
    /\ pc' = "stamped"
    /\ UNCHANGED <<diarization_segments, start, end, speaker, whisper_result,
                   merged, grouped>>
    /\ UNCHANGED runVars

NextTimestamp == FormatTimestamp

SpecTimestamp == InitTimestamp /\ [][NextTimestamp]_vars

(***************************************************************************)
(* Claims about format_timestamp.                                          *)
(***************************************************************************)
\* the whole seconds of the argument: what is left of it after truncation
WholeSeconds == seconds \div TicksPerSecond

\* the number a digit stands for
DigitValue ==
    ("0" :> 0) @@ ("1" :> 1) @@ ("2" :> 2) @@ ("3" :> 3) @@ ("4" :> 4) @@
    ("5" :> 5) @@ ("6" :> 6) @@ ("7" :> 7) @@ ("8" :> 8) @@ ("9" :> 9)

\* a non-empty string of digits
IsNumeral(s) == s # <<>> /\ \A i \in 1..Len(s) : s[i] \in DOMAIN DigitValue

\* a numeral without padding: no leading zero but for "0" itself
IsUnpadded(s) == IsNumeral(s) /\ (Len(s) = 1 \/ s[1] # "0")

\* the number a numeral stands for
RECURSIVE NumeralValue(_)
NumeralValue(s) ==
    IF s = <<>> THEN 0 ELSE 10 * NumeralValue(Front(s)) + DigitValue[Last(s)]

\* the field of the rendering between the places a and b
Field(a, b) == SubSeq(formatted, a, b)

\* the places of the colons of the rendering
Colons == {i \in 1..Len(formatted) : formatted[i] = ":"}

\* C12: format_timestamp truncates to whole seconds and renders H:MM:SS
\* exactly from 3600 seconds on and M:SS below, H and M unpadded, MM and SS
\* of two digits and in 0..59
C12_TimestampRendering ==
    pc = "stamped" =>
        LET n == Len(formatted) IN
        IF WholeSeconds >= 3600
        THEN /\ n >= 7
             /\ Colons = {n - 5, n - 2}
             /\ IsUnpadded(Field(1, n - 6))
             /\ NumeralValue(Field(1, n - 6)) = WholeSeconds \div 3600
             /\ IsNumeral(Field(n - 4, n - 3))
             /\ NumeralValue(Field(n - 4, n - 3)) = (WholeSeconds % 3600) \div 60
             /\ NumeralValue(Field(n - 4, n - 3)) \in 0..59
             /\ IsNumeral(Field(n - 1, n))
             /\ NumeralValue(Field(n - 1, n)) = WholeSeconds % 60
             /\ NumeralValue(Field(n - 1, n)) \in 0..59
        ELSE /\ n >= 4
             /\ Colons = {n - 2}
             /\ IsUnpadded(Field(1, n - 3))
             /\ NumeralValue(Field(1, n - 3)) = WholeSeconds \div 60
             /\ NumeralValue(Field(1, n - 3)) \in 0..59
             /\ IsNumeral(Field(n - 1, n))
             /\ NumeralValue(Field(n - 1, n)) = WholeSeconds % 60
             /\ NumeralValue(Field(n - 1, n)) \in 0..59

\* C12 happens: 3725 seconds and a fraction are rendered "1:02:05"
C12_Witness ==
    /\ pc = "stamped"
    /\ seconds = 3725 * TicksPerSecond + 1
    /\ formatted = <<"1", ":", "0", "2", ":", "0", "5">>

(***************************************************************************)
(* get_hf_token (lines 63-88): the token of the connector's .env file.     *)
(***************************************************************************)
\* the literal 'HUGGINGFACE_API_TOKEN=' of line 83
TokenKey ==
    <<"H", "U", "G", "G", "I", "N", "G", "F", "A", "C", "E", "_",
      "A", "P", "I", "_", "T", "O", "K", "E", "N", "=">>

\* s.startswith(prefix)
startswith(s, prefix) ==
    Len(s) >= Len(prefix) /\ SubSeq(s, 1, Len(prefix)) = prefix

\* s.split(sep, 1)[1] of a string that holds sep: what follows the first sep
RECURSIVE AfterFirst(_, _)
AfterFirst(s, sep) ==
    IF Head(s) = sep THEN Tail(s) ELSE AfterFirst(Tail(s), sep)

\* the loop of lines 81-84 over the lines of the file, and line 88 after it
RECURSIVE TokenOfLines(_)
TokenOfLines(lines) ==
    IF lines = <<>> THEN None
    ELSE LET line == strip(Head(lines)) IN
         IF startswith(line, TokenKey)
         THEN strip(AfterFirst(line, "="))
         ELSE TokenOfLines(Tail(lines))

\* get_hf_token that returns the value as it stands in the file
get_hf_token_Unstripped(env) ==
    LET RECURSIVE Raw(_)
        Raw(lines) ==
            IF lines = <<>> THEN None
            ELSE LET line == strip(Head(lines)) IN
                 IF startswith(line, TokenKey)
                 THEN AfterFirst(Head(lines), "=")
                 ELSE Raw(Tail(lines))
    IN  IF ~env.exists \/ ~env.readable THEN None ELSE Raw(env.lines)

\* get_hf_token: None without a file (line 76) or when reading it raises
\* (lines 85-88), else the value of the first line that starts with the key
get_hf_token(env) ==
    IF ~env.exists THEN None
    ELSE IF ~env.readable THEN None
    ELSE TokenOfLines(env.lines)

\* the lines a connector .env file is made of: a comment, the key with a
\* token, the key with a blank value
EnvLines ==
    {<<"#", "x", "\n">>,
     <<" ">> \o TokenKey \o <<" ", "h", "f", "_", "a", "=", "b", " ", "\n">>,
     TokenKey \o <<" ", "\t", "\n">>}

\* the .env files of a run: none, one that cannot be read, and the files of
\* up to two lines
EnvFiles ==
    {NoEnvFile, [exists |-> TRUE, readable |-> FALSE, lines |-> <<>>]}
        \cup {[exists |-> TRUE, readable |-> TRUE, lines |-> l] :
                l \in [1..0 -> EnvLines] \cup [1..1 -> EnvLines] \cup [1..2 -> EnvLines]}

(***************************************************************************)
(* format_transcription_plain (lines 337-343) and save_outputs (395-438).  *)
(***************************************************************************)
\* [.!?] of the pattern of line 342
SentenceEnds == {".", "!", "?"}

\* [A-Z"'] of the pattern of line 342
SentenceStarts ==
    {"A", "B", "C", "D", "E", "F", "G", "H", "I", "J", "K", "L", "M",
     "N", "O", "P", "Q", "R", "S", "T", "U", "V", "W", "X", "Y", "Z",
     "\"", "'"}

\* the length of the longest run of whitespace of text that starts at i
RECURSIVE WhitespaceRun(_, _)
WhitespaceRun(text, i) ==
    IF i <= Len(text) /\ text[i] \in Whitespace
    THEN 1 + WhitespaceRun(text, i + 1)
    ELSE 0

\* a plausible slip: the pattern without its lookahead, ([.!?])\s+
SentenceBreakAtAnyRun(text, i) ==
    text[i] \in SentenceEnds /\ WhitespaceRun(text, i + 1) >= 1

\* ([.!?])\s+(?=[A-Z"']) matches at i: the greedy \s+ can only end where
\* the whitespace ends, since the lookahead wants a character that is none
SentenceBreakAt(text, i) ==
    LET run == WhitespaceRun(text, i + 1) IN
    /\ text[i] \in SentenceEnds
    /\ run >= 1
    /\ i + run + 1 <= Len(text)
    /\ text[i + run + 1] \in SentenceStarts

\* a plausible slip: the break is put in and the whitespace is kept
RECURSIVE SubFromKeepsRun(_, _)
SubFromKeepsRun(text, i) ==
    IF i > Len(text) THEN <<>>
    ELSE IF SentenceBreakAt(text, i)
    THEN <<text[i], "\n", "\n">> \o SubFromKeepsRun(text, i + 1)
    ELSE <<text[i]>> \o SubFromKeepsRun(text, i + 1)

\* re.sub from place i on: the matches from left to right, each replaced
\* by its group 1 and "\n\n"
RECURSIVE SubFrom(_, _)
SubFrom(text, i) ==
    IF i > Len(text) THEN <<>>
    ELSE IF SentenceBreakAt(text, i)
    THEN <<text[i], "\n", "\n">> \o SubFrom(text, i + WhitespaceRun(text, i + 1) + 1)
    ELSE <<text[i]>> \o SubFrom(text, i + 1)

format_transcription_plain(text) == SubFrom(text, 1)

\* Python's None where a list of segments may stand (lines 395 and 493);
\* its one element is a record, as the elements of a list of segments are
NoSegments == <<[none |-> TRUE]>>

\* a plausible slip: "if diarized_segments is not None:", which an empty
\* list passes
TruthyNotNone(segments) == segments # NoSegments

\* "if diarized_segments:" (lines 412, 430, 513) fails for None and for []
Truthy(segments) == segments # NoSegments /\ segments # <<>>

\* lines 412-422: the content and the suffix of the file
SaveContent(transcription, diarized_segments) ==
    IF Truthy(diarized_segments)
    THEN [formatted_content |-> format_transcription_diarized(diarized_segments),
          suffix |-> "_diarized"]
    ELSE [formatted_content |-> format_transcription_plain(strip(transcription.text)),
          suffix |-> "_transcription"]

\* a plausible slip: the segments are counted, not their speakers
SpeakerCountSegments(diarized_segments) == Len(diarized_segments)

\* line 431-432: len(set(seg["speaker"] ...))
SpeakerCount(diarized_segments) ==
    Cardinality({diarized_segments[i].speaker : i \in 1..Len(diarized_segments)})

\* the file after open(transcription_file, 'w') (line 426): created or
\* truncated.  A file that is not closed holds some part of what was to be
\* written, which part is left open: its body stands for any of them
OpenedFile(suffix) ==
    [suffix |-> suffix, speakers |-> <<>>, body |-> <<>>, closed |-> FALSE]

\* the file after lines 427-434 and the end of the with block: the header,
\* with the "Speakers:" line of lines 430-432, and the content
WrittenFile(suffix, formatted_content, diarized_segments) ==
    [suffix |-> suffix,
     speakers |-> IF Truthy(diarized_segments)
                  THEN <<SpeakerCount(diarized_segments)>>
                  ELSE <<>>,
     body |-> formatted_content,
     closed |-> TRUE]

(***************************************************************************)
(* SpecMain: one run of main (lines 441-529), step by step.  The two       *)
(* engines are the environment: each call raises or returns any result.    *)
(* trace records the calls of the engines and their returns.               *)
(***************************************************************************)
\* the texts of the segments of a run; the second has sentences to reflow
RunTexts ==
    RawTexts \cup
    {<<" ", "H", "i", ".", " ", "\t", "Y", "o", "?", " ", "n", "o", "!",
       "\n", "\"", "A", "\"", ".", " ">>}

\* the transcription segments of a run
RunSegments ==
    {[start |-> 0, end |-> e, text |-> t] : e \in 0..MaxSegTime, t \in RunTexts}

\* what model.transcribe may return in a run
RunResults == {WhisperResult(segs) : segs \in SeqsUpTo(RunSegments, MaxRunSegs)}

\* what run_diarization may return in a run, the empty list included
RunDiarizations == SeqsUpTo(DiarSegments, MaxMergeDiar)

\* what a run leaves alone: its inputs, and the variables of single calls
inputVars == <<start, end, speaker, grouped, seconds,
               audio_file, enable_diarization, env_file>>

InitMain ==
    /\ pc = "start"
    /\ audio_file \in [exists : BOOLEAN, supported : BOOLEAN]
    /\ enable_diarization \in BOOLEAN
    /\ env_file \in EnvFiles
    /\ hf_token = None
    /\ exit_code = <<>>
    /\ files = {}
    /\ trace = <<>>
    /\ diarization_segments = NoSegments
    /\ whisper_result = NoResult
    /\ merged = NoSegments
    /\ formatted = <<>>
    /\ start = 0
    /\ end = 0
    /\ speaker = None
    /\ grouped = <<>>
    /\ seconds = 0

\* line 481 that finds every extension supported
UnsupportedNever(file) == FALSE

\* line 481: file_extension not in SUPPORTED_FORMATS
Unsupported(file) == ~file.supported

\* lines 496-510 that go to the transcription at once
AfterValidationTranscribesFirst(diarize) == "transcribe"

\* lines 496-510: the token and the diarization come first if requested
AfterValidation(diarize) == IF diarize THEN "token" ELSE "transcribe"

\* an except clause that calls the engine again
RaisedRetries(stage) ==
    IF stage = "diarization" THEN [pc |-> "diarize", exit_code |-> <<>>]
    ELSE IF stage = "transcription" THEN [pc |-> "transcribe", exit_code |-> <<>>]
    ELSE [pc |-> "exit", exit_code |-> <<1>>]

\* the except clauses of lines 162-173 and 527-529: sys.exit(1)
Raised(stage) == [pc |-> "exit", exit_code |-> <<1>>]

\* lines 475-477
FileNotFound ==
    /\ pc = "start"
    /\ ~audio_file.exists
    /\ pc' = "exit"
    /\ exit_code' = <<1>>
    /\ UNCHANGED <<diarization_segments, whisper_result, merged, formatted,
                   hf_token, files, trace>>
    /\ UNCHANGED inputVars

\* lines 480-484
UnsupportedFormat ==
    /\ pc = "start"
    /\ audio_file.exists
    /\ Unsupported(audio_file)
    /\ pc' = "exit"
    /\ exit_code' = <<1>>
    /\ UNCHANGED <<diarization_segments, whisper_result, merged, formatted,
                   hf_token, files, trace>>
    /\ UNCHANGED inputVars

\* lines 486-496: the input is valid
Validated ==
    /\ pc = "start"
    /\ audio_file.exists
    /\ ~Unsupported(audio_file)
    /\ diarization_segments' = NoSegments
    /\ pc' = AfterValidation(enable_diarization)
    /\ UNCHANGED <<whisper_result, merged, formatted, hf_token, exit_code,
                   files, trace>>
    /\ UNCHANGED inputVars

\* lines 497-504: no token
MissingToken ==
    /\ pc = "token"
    /\ hf_token' = get_hf_token(env_file)
    /\ Falsy(hf_token')
    /\ pc' = "exit"
    /\ exit_code' = <<1>>
    /\ UNCHANGED <<diarization_segments, whisper_result, merged, formatted,
                   files, trace>>
    /\ UNCHANGED inputVars

\* lines 497-506: a token, run_diarization is called
TokenLoaded ==
    /\ pc = "token"
    /\ hf_token' = get_hf_token(env_file)
    /\ ~Falsy(hf_token')
    /\ pc' = "diarize"
    /\ UNCHANGED <<diarization_segments, whisper_result, merged, formatted,
                   exit_code, files, trace>>
    /\ UNCHANGED inputVars

\* lines 113-118: pyannote.audio is not installed
ImportFails ==
    /\ pc = "diarize"
    /\ pc' = "exit"
    /\ exit_code' = <<1>>
    /\ UNCHANGED <<diarization_segments, whisper_result, merged, formatted,
                   hf_token, files, trace>>
    /\ UNCHANGED inputVars

\* lines 125-133, 162-173: loading the pipeline raises (no licence, 401)
LoadPipelineFails ==
    /\ pc = "diarize"
    /\ pc' = "exit"
    /\ exit_code' = <<1>>
    /\ UNCHANGED <<diarization_segments, whisper_result, merged, formatted,
                   hf_token, files, trace>>
    /\ UNCHANGED inputVars

\* lines 139-142: the pipeline is called on the audio file
StartDiarization ==
    /\ pc = "diarize"
    /\ trace' = Append(trace, "diarization_start")
    /\ pc' = "diarizing"
    /\ UNCHANGED <<diarization_segments, whisper_result, merged, formatted,
                   hf_token, exit_code, files>>
    /\ UNCHANGED inputVars

\* lines 139-154, 162-173: the pipeline raises
DiarizationRaises ==
    /\ pc = "diarizing"
    /\ pc' = Raised("diarization").pc
    /\ exit_code' = Raised("diarization").exit_code
    /\ UNCHANGED <<diarization_segments, whisper_result, merged, formatted,
                   hf_token, files, trace>>
    /\ UNCHANGED inputVars

\* lines 139-160, 506: the pipeline returns, its tracks become the segments
DiarizationReturns ==
    /\ pc = "diarizing"
    /\ \E segments \in RunDiarizations : diarization_segments' = segments
    /\ trace' = Append(trace, "diarization_end")
    /\ pc' = "transcribe"
    /\ UNCHANGED <<whisper_result, merged, formatted, hf_token, exit_code, files>>
    /\ UNCHANGED inputVars

\* lines 249, 290-292, 527-529: loading the Whisper model raises
LoadModelFails ==
    /\ pc = "transcribe"
    /\ pc' = "exit"
    /\ exit_code' = <<1>>
    /\ UNCHANGED <<diarization_segments, whisper_result, merged, formatted,
                   hf_token, files, trace>>
    /\ UNCHANGED inputVars

\* lines 249-268: model.transcribe is called
StartTranscription ==
    /\ pc = "transcribe"
    /\ trace' = Append(trace, "transcription_start")
    /\ pc' = "transcribing"
    /\ UNCHANGED <<diarization_segments, whisper_result, merged, formatted,
                   hf_token, exit_code, files>>
    /\ UNCHANGED inputVars

\* lines 268-277, 290-292, 527-529: model.transcribe raises
TranscriptionRaises ==
    /\ pc = "transcribing"
    /\ pc' = Raised("transcription").pc
    /\ exit_code' = Raised("transcription").exit_code
    /\ UNCHANGED <<diarization_segments, whisper_result, merged, formatted,
                   hf_token, files, trace>>
    /\ UNCHANGED inputVars

\* lines 268-288, 510: model.transcribe returns
TranscriptionReturns ==
    /\ pc = "transcribing"
    /\ \E result \in RunResults : whisper_result' = result
    /\ trace' = Append(trace, "transcription_end")
    /\ pc' = "merge"
    /\ UNCHANGED <<diarization_segments, merged, formatted, hf_token, exit_code, files>>
    /\ UNCHANGED inputVars

\* lines 513-517: the merge if there are diarization segments, and the
\* argument diarized_segments of save_outputs
Merge ==
    /\ pc = "merge"
    /\ merged' = IF Truthy(diarization_segments)
                 THEN merge_transcription_with_diarization(whisper_result,
                                                           diarization_segments)
                 ELSE NoSegments
    /\ pc' = "save"
    /\ UNCHANGED <<diarization_segments, whisper_result, formatted, hf_token,
                   exit_code, files, trace>>
    /\ UNCHANGED inputVars

\* lines 412-426, 527-529: open raises (no permission, read-only directory)
SaveOpenFails ==
    /\ pc = "save"
    /\ formatted' = SaveContent(whisper_result, merged).formatted_content
    /\ pc' = Raised("save").pc
    /\ exit_code' = Raised("save").exit_code
    /\ UNCHANGED <<diarization_segments, whisper_result, merged, hf_token,
                   files, trace>>
    /\ UNCHANGED inputVars

\* lines 412-426: the content is formatted and the file is opened for writing
SaveOpen ==
    /\ pc = "save"
    /\ formatted' = SaveContent(whisper_result, merged).formatted_content
    /\ files' = {OpenedFile(SaveContent(whisper_result, merged).suffix)}
    /\ pc' = "write"
    /\ UNCHANGED <<diarization_segments, whisper_result, merged, hf_token,
                   exit_code, trace>>
    /\ UNCHANGED inputVars

\* lines 427-434, 527-529: a write or the closing flush raises (disk full);
\* the opened file stays as it is
SaveWriteFails ==
    /\ pc = "write"
    /\ pc' = Raised("save").pc
    /\ exit_code' = Raised("save").exit_code
    /\ UNCHANGED <<diarization_segments, whisper_result, merged, formatted,
                   hf_token, files, trace>>
    /\ UNCHANGED inputVars

\* lines 427-438, 519-529: the file is written and closed, main returns
SaveWrite ==
    /\ pc = "write"
    /\ files' = {WrittenFile(SaveContent(whisper_result, merged).suffix,
                             formatted, merged)}
    /\ pc' = "exit"
    /\ exit_code' = <<0>>
    /\ UNCHANGED <<diarization_segments, whisper_result, merged, formatted,
                   hf_token, trace>>
    /\ UNCHANGED inputVars

NextMain ==
    \/ FileNotFound
    \/ UnsupportedFormat
    \/ Validated
    \/ MissingToken
    \/ TokenLoaded
    \/ ImportFails
    \/ LoadPipelineFails
    \/ StartDiarization
    \/ DiarizationRaises
    \/ DiarizationReturns
    \/ LoadModelFails
    \/ StartTranscription
    \/ TranscriptionRaises
    \/ TranscriptionReturns
    \/ Merge
    \/ SaveOpenFails
    \/ SaveOpen
    \/ SaveWriteFails
    \/ SaveWrite

SpecMain == InitMain /\ [][NextMain]_vars

(***************************************************************************)
(* Claims about a run of main.                                             *)
(***************************************************************************)
\* the places of an event in the trace
Places(event) == {i \in 1..Len(trace) : trace[i] = event}

\* the run has ended
Exited(code) == pc = "exit" /\ exit_code = <<code>>

\* the audio file is there and of a supported format
ValidInput == audio_file.exists /\ audio_file.supported

\* C13: when diarization is requested, the speech recognition is called only
\* after the diarization call has returned its segments; no call of one
\* engine falls between the call and the return of the other
C13_DiarizationBeforeTranscription ==
    enable_diarization =>
        /\ \A i \in Places("transcription_start") :
              /\ \E j \in Places("diarization_end") : j < i
              /\ \A j \in Places("diarization_start") :
                    /\ j < i
                    /\ \E k \in Places("diarization_end") : j < k /\ k < i
              /\ diarization_segments # NoSegments
        /\ \A i \in Places("diarization_start") :
              \A j \in Places("transcription_end") : i < j

\* C13 happens: the transcription is called after a diarization that
\* returned a segment
C13_Witness ==
    /\ enable_diarization
    /\ trace = <<"diarization_start", "diarization_end", "transcription_start">>
    /\ diarization_segments # <<>>

\* C14: a missing audio file or an unsupported extension ends the run with
\* exit code 1 from its first step, no engine called before or after
C14_InputErrorsExitBeforeInference ==
    ~ValidInput =>
        /\ pc \in {"start", "exit"}
        /\ pc = "start" => ENABLED (FileNotFound \/ UnsupportedFormat)
        /\ pc = "start" => ~ENABLED Validated
        /\ pc = "exit" => exit_code = <<1>>
        /\ trace = <<>>
        /\ files = {}

\* C14 happens: a file that is there, of an unsupported format
C14_Witness ==
    /\ Exited(1)
    /\ audio_file.exists
    /\ ~audio_file.supported
    /\ enable_diarization

\* the line gives the key a value that is not blank
CarriesToken(line) ==
    LET l == lstrip(line) IN
    /\ startswith(l, TokenKey)
    /\ \E i \in (Len(TokenKey) + 1)..Len(l) : l[i] \notin Whitespace

\* no credential token is available: no file that can be read, or no line
\* of it that carries one
NoToken ==
    \/ ~env_file.exists
    \/ ~env_file.readable
    \/ \A i \in 1..Len(env_file.lines) : ~CarriesToken(env_file.lines[i])

\* C15: diarization requested without a token ends the run with exit code 1
\* at the token check: no engine is called and no file is written
C15_MissingTokenExits ==
    (enable_diarization /\ ValidInput /\ NoToken) =>
        /\ pc \in {"start", "token", "exit"}
        /\ pc = "token" => ENABLED MissingToken /\ ~ENABLED TokenLoaded
        /\ pc = "exit" => exit_code = <<1>>
        /\ trace = <<>>
        /\ files = {}

\* C15 happens: the file gives the key a blank value, the token is ""
C15_Witness ==
    /\ Exited(1)
    /\ enable_diarization
    /\ ValidInput
    /\ env_file.readable
    /\ Len(env_file.lines) = 1
    /\ startswith(env_file.lines[1], TokenKey)
    /\ hf_token = <<>>

\* C16: a run that ends in failure has written no transcript file, complete
\* or partial
C16_NoFileOnFailure == Exited(1) => files = {}

\* C17: exit code 0 only after every requested engine returned and the file
\* was written and closed; a run that ends inside a call of an engine (the
\* engine raised) exits with code 1; each engine is called at most once
C17_ExitCodes ==
    /\ Exited(0) =>
          /\ enable_diarization => Cardinality(Places("diarization_end")) = 1
          /\ Cardinality(Places("transcription_end")) = 1
          /\ \E f \in files : f.closed
    /\ (pc = "exit" /\ trace # <<>>
           /\ Last(trace) \in {"diarization_start", "transcription_start"}) =>
          exit_code = <<1>>
    /\ Cardinality(Places("diarization_start")) <= 1
    /\ Cardinality(Places("transcription_start")) <= 1

\* C17 happens: the diarization returned, then the speech engine raised
C17_Witness ==
    /\ Exited(1)
    /\ trace = <<"diarization_start", "diarization_end", "transcription_start">>

\* C18: a successful run with diarization requested writes <stem>_diarized.txt
\* with the speaker count and the speaker-labelled body; one without writes
\* <stem>_transcription.txt with the reflowed text and no speaker count
C18_ArtifactByMode ==
    Exited(0) =>
        \E f \in files :
            /\ files = {f}
            /\ f.closed
            /\ IF enable_diarization
               THEN /\ f.suffix = "_diarized"
                    /\ f.speakers # <<>>
                    /\ f.body = format_transcription_diarized(
                                    merge_transcription_with_diarization(
                                        whisper_result, diarization_segments))
               ELSE /\ f.suffix = "_transcription"
                    /\ f.speakers = <<>>
                    /\ f.body = format_transcription_plain(strip(whisper_result.text))

InitCore ==
    /\ pc = "ready"
    /\ NoRun
    /\ start = 0
    /\ end = 0
    /\ speaker = None
    /\ grouped = <<>>
    /\ formatted = <<>>
    /\ \/ /\ diarization_segments \in SeqsUpTo(DiarSegments, MaxCoreSegs)
          /\ whisper_result = NoResult
          /\ merged = <<>>
       \/ /\ diarization_segments \in SeqsUpTo(DiarSegments, MaxCoreMerge)
          /\ whisper_result \in {WhisperResult(segments) :
                                    segments \in SeqsUpTo(WhisperSegments, MaxCoreMerge)}
          /\ merged = <<>>
       \/ /\ diarization_segments = <<>>
          /\ whisper_result = NoResult
          /\ merged \in SeqsUpTo(AttributedSegments, MaxCoreMerge)

NextCore ==
    \/ GetSpeakerAtTime
    \/ MergeTranscriptionWithDiarization
    \/ FormatTranscriptionDiarized

SpecCore == InitCore /\ [][NextCore]_vars

\* C21: get_speaker_at_time and the grouping give a result for every input,
\* the empty ones, the windows of zero duration and the windows outside all
\* segments included: the label is a speaker label, never None, and the
\* turns and the string are there
C21_Total ==
    /\ pc = "ready" => (ENABLED GetSpeakerAtTime /\ ENABLED FormatTranscriptionDiarized)
    /\ pc = "resolved" => (speaker # None /\ speaker \in Labels)
    /\ pc = "formatted" =>
          /\ \A k \in 1..Len(grouped) : grouped[k].speaker \in Labels
          /\ merged = <<>> => (grouped = <<>> /\ formatted = <<>>)
          /\ merged # <<>> => (grouped # <<>> /\ formatted # <<>>)

\* C21 happens: a window of zero duration that no segment overlaps, on a
\* diarization that is not empty
C21_Witness ==
    /\ pc = "resolved"
    /\ start = end
    /\ diarization_segments # <<>>
    /\ ~SomeOverlap
    /\ speaker = SPEAKER_01

PlainChars == {".", "?", " ", "\n", "A", "a", "\""}

InitPlain ==
    /\ pc = "ready"
    /\ NoRun
    /\ whisper_result \in {[text |-> t, segments |-> <<>>] :
                              t \in SeqsUpTo(PlainChars, MaxPlainLen)}
    /\ diarization_segments = <<>>
    /\ start = 0
    /\ end = 0
    /\ speaker = None
    /\ merged = <<>>
    /\ grouped = <<>>
    /\ formatted = <<>>

\* one call format_transcription_plain(text)
FormatTranscriptionPlain ==
    /\ pc = "ready"
    /\ formatted' = format_transcription_plain(whisper_result.text)
    /\ pc' = "plain"
    /\ UNCHANGED <<diarization_segments, start, end, speaker, whisper_result,
                   merged, grouped>>
    /\ UNCHANGED runVars

\* a second call, on the string the first returned
FormatTranscriptionPlainAgain ==
    /\ pc = "plain"
    /\ formatted' = format_transcription_plain(formatted)
    /\ pc' = "plain_again"
    /\ UNCHANGED <<diarization_segments, start, end, speaker, whisper_result,
                   merged, grouped>>
    /\ UNCHANGED runVars

NextPlain == FormatTranscriptionPlain \/ FormatTranscriptionPlainAgain

SpecPlain == InitPlain /\ [][NextPlain]_vars

\* the last place of the run of text that starts at i: whitespace only, or
\* no whitespace at all
RECURSIVE RunEnd(_, _)
RunEnd(text, i) ==
    IF i < Len(text) /\ ((text[i + 1] \in Whitespace) <=> (text[i] \in Whitespace))
    THEN RunEnd(text, i + 1)
    ELSE i

\* the text cut into its maximal runs, from place i on
RECURSIVE RunsFrom(_, _)
RunsFrom(text, i) ==
    IF i > Len(text) THEN <<>>
    ELSE <<SubSeq(text, i, RunEnd(text, i))>> \o RunsFrom(text, RunEnd(text, i) + 1)

Runs(text) == RunsFrom(text, 1)

\* run k of runs is whitespace between a sentence end and an uppercase
\* letter or a quote
BreakRun(runs, k) ==
    /\ runs[k][1] \in Whitespace
    /\ k > 1
    /\ k < Len(runs)
    /\ Last(runs[k - 1]) \in SentenceEnds
    /\ runs[k + 1][1] \in SentenceStarts

\* C23: format_transcription_plain keeps the runs of the text, one for one:
\* a whitespace run after '.', '!' or '?' and before an uppercase letter or
\* a quote becomes one blank line, every other run stays as it is
C23_PlainBreaksOnly ==
    pc = "plain" =>
        LET before == Runs(whisper_result.text)
            after == Runs(formatted)
        IN  /\ Len(after) = Len(before)
            /\ \A k \in 1..Len(before) :
                  after[k] = IF BreakRun(before, k) THEN <<"\n", "\n">> ELSE before[k]

\* C23 happens: two whitespace runs, the first becomes a blank line, the
\* second, before a lowercase letter, stays
C23_Witness ==
    /\ pc = "plain"
    /\ whisper_result.text = <<".", " ", "A", " ", "a">>
    /\ formatted = <<".", "\n", "\n", "A", " ", "a">>

\* C30: format_transcription_plain applied to its own output returns that
\* output unchanged
C30_PlainIdempotent ==
    [][pc' = "plain_again" => formatted' = formatted]_vars

\* C30 happens: the second call on an output that holds a blank line the
\* first call put in
C30_Witness ==
    /\ pc = "plain_again"
    /\ whisper_result.text = <<"a", "?", " ", "\n", "\"">>
    /\ formatted = <<"a", "?", "\n", "\n", "\"">>

\* C24: on a tie of the greatest overlap, the returned speaker is the tied
\* one that is first, in input order, to have a segment with a positive
\* overlap: before that segment no segment of another tied speaker overlaps
\* the window, whatever segments without overlap come earlier
C24_TieFirstPositiveOverlap ==
    (pc = "resolved" /\ SomeOverlap /\ Cardinality(Winners) >= 2) =>
        /\ \A l \in Labels : TotalOverlap(l) <= TotalOverlap(speaker)
        /\ \E i \in 1..Len(diarization_segments) :
              /\ diarization_segments[i].speaker = speaker
              /\ OverlapAt(i) > 0
              /\ \A j \in 1..(i - 1) :
                    OverlapAt(j) > 0 =>
                        diarization_segments[j].speaker \notin (Winners \ {speaker})

\* C24 happens: the sequence opens with a segment of the other tied speaker
\* that does not meet the window, and the returned speaker overlaps it next
C24_Witness ==
    /\ pc = "resolved" /\ SomeOverlap /\ Cardinality(Winners) >= 2
    /\ Len(diarization_segments) = 3
    /\ diarization_segments[1].speaker # speaker
    /\ OverlapAt(1) = 0
    /\ diarization_segments[2].speaker = speaker
    /\ OverlapAt(2) > 0
    /\ diarization_segments[3].speaker # speaker
    /\ OverlapAt(3) > 0

\* the window lies inside segment i: seg.start <= start and end <= seg.end
Inside(i) ==
    /\ diarization_segments[i].start <= start
    /\ end <= diarization_segments[i].end

\* the window lies inside a segment of speaker l and inside no segment of
\* another speaker
InsideOnly(l) ==
    /\ \E i \in 1..Len(diarization_segments) :
          diarization_segments[i].speaker = l /\ Inside(i)
    /\ \A j \in 1..Len(diarization_segments) :
          diarization_segments[j].speaker # l => ~Inside(j)

\* C25 as stated: a window inside a segment of S and inside no segment of
\* another speaker resolves to S, whatever its duration
C25_WindowInsideSegment ==
    pc = "resolved" => \A l \in Labels : InsideOnly(l) => speaker = l

\* C25 amended: a window of positive duration inside a segment of S, which
\* no segment of another speaker overlaps, resolves to S
C25_WindowInsideNoOtherOverlap ==
    pc = "resolved" =>
        \A l \in Labels :
            (/\ start < end
             /\ \E i \in 1..Len(diarization_segments) :
                   diarization_segments[i].speaker = l /\ Inside(i)
             /\ \A j \in 1..Len(diarization_segments) :
                   diarization_segments[j].speaker # l => OverlapAt(j) = 0)
            => speaker = l

\* C25 happens: the window is inside the second segment, the first is of
\* another speaker and ends where the window starts
C25_Witness ==
    /\ pc = "resolved"
    /\ start < end
    /\ Len(diarization_segments) >= 2
    /\ diarization_segments[1].speaker # speaker
    /\ diarization_segments[1].end = start
    /\ diarization_segments[2].speaker = speaker
    /\ Inside(2)
    /\ \A j \in 1..Len(diarization_segments) :
          diarization_segments[j].speaker # speaker => OverlapAt(j) = 0

\* C26: with a non-empty diarization the returned label is the speaker of
\* one of its segments; "SPEAKER_00" is returned only for an empty
\* diarization or for one in which that label occurs
C26_LabelFromDiarization ==
    pc = "resolved" =>
        /\ diarization_segments # <<>> =>
              \E i \in 1..Len(diarization_segments) :
                  diarization_segments[i].speaker = speaker
        /\ speaker = SPEAKER_00 =>
              \/ diarization_segments = <<>>
              \/ \E i \in 1..Len(diarization_segments) :
                     diarization_segments[i].speaker = SPEAKER_00

\* C26 happens: no segment overlaps the window, none is of "SPEAKER_00",
\* and the label of the segments is returned
C26_Witness ==
    /\ pc = "resolved"
    /\ diarization_segments # <<>>
    /\ ~SomeOverlap
    /\ \A i \in 1..Len(diarization_segments) :
          diarization_segments[i].speaker = SPEAKER_01
    /\ speaker = SPEAKER_01

\* the diarization in another order: segment p[i] at place i
Reordered(p) == [i \in 1..Len(diarization_segments) |-> diarization_segments[p[i]]]

\* the orders of the segments of the diarization
Orders == Permutations(1..Len(diarization_segments))

\* one segment is nearer to the window than every other
OneNearest ==
    \E i \in 1..Len(diarization_segments) :
        \A j \in 1..Len(diarization_segments) : j # i => Distance2(i) < Distance2(j)

C28_ModeByAttributedSegments ==
    Exited(0) =>
        \E f \in files :
            /\ files = {f}
            /\ f.closed
            /\ (f.suffix = "_diarized") <=>
                  (/\ enable_diarization
                   /\ diarization_segments # <<>>
                   /\ whisper_result.segments # <<>>)
            /\ f.suffix # "_diarized" =>
                  /\ f.suffix = "_transcription"
                  /\ f.speakers = <<>>
                  /\ f.body = format_transcription_plain(strip(whisper_result.text))

\* C28 happens: diarization was requested and returned nothing, the speech
\* engine returned a segment, the run ends well with the plain artifact
C28_Witness ==
    /\ Exited(0)
    /\ enable_diarization
    /\ diarization_segments = <<>>
    /\ whisper_result.segments # <<>>
    /\ \E f \in files : f.suffix = "_transcription" /\ f.speakers = <<>> /\ f.closed

(***************************************************************************)
(* SpecSave: main from Step 3 on (lines 512-529), with diarization         *)
(* requested and both engines returned: the merge and save_outputs, on     *)
(* diarizations of more than one speaker and transcriptions of more than   *)
(* one segment.                                                            *)
(***************************************************************************)
\* the tracks of a diarization come in the order of their starts
Chronological(segs) ==
    \A i \in 1..(Len(segs) - 1) : segs[i].start <= segs[i + 1].start

\* the segments of a transcription follow one another
Consecutive(segs) ==
    \A i \in 1..(Len(segs) - 1) : segs[i].end <= segs[i + 1].start

\* the transcription segments at Step 3: the header's count does not read
\* the text, so one text stands for all
SaveSegments == {seg \in WhisperSegments : seg.text = <<" ", "h", "i">>}

InitSave ==
    /\ pc = "merge"
    /\ audio_file = [exists |-> TRUE, supported |-> TRUE]
    /\ enable_diarization = TRUE
    /\ env_file \in {f \in EnvFiles :
                        f.readable /\ Len(f.lines) = 1 /\ ~Falsy(get_hf_token(f))}
    /\ hf_token = get_hf_token(env_file)
    /\ exit_code = <<>>
    /\ files = {}
    /\ trace = <<"diarization_start", "diarization_end",
                 "transcription_start", "transcription_end">>
    /\ diarization_segments \in
          {d \in SeqsUpTo(DiarSegments, MaxSaveLen) : Chronological(d)}
    /\ whisper_result \in
          {WhisperResult(segments) :
              segments \in {g \in SeqsUpTo(SaveSegments, MaxSaveLen) : Consecutive(g)}}
    /\ merged = NoSegments
    /\ formatted = <<>>
    /\ start = 0
    /\ end = 0
    /\ speaker = None
    /\ grouped = <<>>
    /\ seconds = 0

NextSave ==
    \/ Merge
    \/ SaveOpenFails
    \/ SaveOpen
    \/ SaveWriteFails
    \/ SaveWrite

SpecSave == InitSave /\ [][NextSave]_vars

\* the speakers of a list of segments or of turns
SpeakersOf(segs) == {segs[i].speaker : i \in 1..Len(segs)}

\* C29: the speaker count in the header of a diarized transcript is the
\* number of distinct speakers of the attributed segments, which is that of
\* the turns; it is at least 1 and at most the number of distinct speakers
\* of the diarization
C29_SpeakerCount ==
    \A f \in files :
        (f.closed /\ f.suffix = "_diarized") =>
            /\ f.speakers = <<Cardinality(SpeakersOf(merged))>>
            /\ f.speakers = <<Cardinality(SpeakersOf(Group(merged)))>>
            /\ f.speakers[1] >= 1
            /\ f.speakers[1] <= Cardinality(SpeakersOf(diarization_segments))

\* C29 happens: the diarization has two speakers, one of them wins both
\* segments of the transcription, and the header counts one speaker
C29_Witness ==
    /\ Exited(0)
    /\ Cardinality(SpeakersOf(diarization_segments)) = 2
    /\ Len(merged) = 2
    /\ \E f \in files : f.closed /\ f.suffix = "_diarized" /\ f.speakers = <<1>>

====
